---------------------------- MODULE Spec2Model ----------------------------
(***************************************************************************)
(* CenterNetEstimator (gluoncv/auto/estimators/center_net/center_net.py):  *)
(* the training entry points _fit / _resume_fit, the epoch loop of         *)
(* _train_loop, _evaluate and _predict, as a state machine.                *)
(*                                                                         *)
(* Scores (mean average precision, prediction confidences) are integers:   *)
(* 0 is 0.0, 1 is the smallest positive value, -1 the padding sentinel.    *)
(* Time is discrete; the locals tic and btic are kept as the time that has  *)
(* passed since they were last assigned time.time().                       *)
(***************************************************************************)
EXTENDS Integers, Sequences, FiniteSets, TLC

\* ------------------------------------------------------------------ bounds
MaxEpochs == 3      \* cfg.train.epochs ranges over 0..MaxEpochs
MaxStart == 1       \* cfg.train.start_epoch ranges over 0..MaxStart
MaxInterval == 2    \* cfg.valid.interval ranges over 1..MaxInterval
MaxBatch == 2       \* cfg.train.batch_size, cfg.valid.batch_size in 1..MaxBatch
MaxGpus == 2        \* len(cfg.train.gpus) ranges over 0..MaxGpus (0: cpu)
MaxTrain == 3       \* dataset sizes range over 1..MaxTrain
MaxScore == 1       \* a mean average precision ranges over 0..MaxScore
MaxCalls == 2       \* number of _fit/_resume_fit invocations in a behaviour
MaxVer == 2         \* a call is entered while fewer than MaxVer optimizer steps were taken
MaxEvals == 2       \* number of direct calls of _evaluate in a behaviour
MaxWarmup == 2      \* cfg.train.warmup_epochs ranges over 0..MaxWarmup
MaxTopK == 2        \* slots in the network's top-k output for one image
MaxRows == 2        \* rows of a table handed to _predict
ImgW == 2           \* width of a resized input image, in pixels
ImgH == 4           \* height of a resized input image, in pixels
BatchTicks == 1     \* clock ticks one training batch takes
EvalTicks == 1      \* clock ticks one run of _evaluate takes

Scores == 0..MaxScore

Max(a, b) == IF a >= b THEN a ELSE b

\* ----------------------------------------------------------- configuration
\* self._cfg: a record of the configuration fields the estimator reads.
\* Configurations that vary the epoch schedule; one batch per epoch on one
\* device, with a reporter.
ScheduleCfgs ==
    {[epochs |-> e, start_epoch |-> s, interval |-> v, batch_size |-> 1,
      valid_batch_size |-> 1, gpus |-> 0, train_size |-> 1, val_size |-> 1,
      reporter |-> TRUE, metric |-> "voc07"] :
        e \in 0..MaxEpochs, s \in 0..MaxStart, v \in 1..MaxInterval}

\* The schedules from epoch 0 without a reporter.
NoReporterCfgs ==
    {[epochs |-> e, start_epoch |-> 0, interval |-> v, batch_size |-> 1,
      valid_batch_size |-> 1, gpus |-> 0, train_size |-> 1, val_size |-> 1,
      reporter |-> FALSE, metric |-> "voc07"] :
        e \in 1..MaxEpochs, v \in 1..MaxInterval}

\* Configurations that vary the training batch size, the device count and the
\* size of the training set over a two-epoch run.
DeviceCfgs ==
    {[epochs |-> 2, start_epoch |-> 0, interval |-> 1, batch_size |-> b,
      valid_batch_size |-> 1, gpus |-> g, train_size |-> n, val_size |-> 1,
      reporter |-> TRUE, metric |-> "voc07"] :
        b \in 1..MaxBatch, g \in 1..MaxGpus, n \in 1..MaxTrain}

\* Configurations that vary the validation batch size and the device count
\* over a one-epoch run whose training batch has one item per device.
EvalCfgs ==
    {[epochs |-> 1, start_epoch |-> 0, interval |-> 1, batch_size |-> g,
      valid_batch_size |-> vb, gpus |-> g, train_size |-> g, val_size |-> MaxTrain,
      reporter |-> TRUE, metric |-> "voc07"] :
        vb \in 1..MaxBatch, g \in 1..MaxGpus}

\* Configurations that vary the validation metric name.
MetricCfgs ==
    {[epochs |-> 2, start_epoch |-> 0, interval |-> 1, batch_size |-> 1,
      valid_batch_size |-> 1, gpus |-> 0, train_size |-> 1, val_size |-> 1,
      reporter |-> TRUE, metric |-> m] : m \in {"voc", "coco"}}

\* validation interval 5 over 12 epochs
IntervalCfgs ==
    {[epochs |-> 12, start_epoch |-> 0, interval |-> 5, batch_size |-> 1,
      valid_batch_size |-> 1, gpus |-> 0, train_size |-> 1, val_size |-> 1,
      reporter |-> TRUE, metric |-> "voc07"]}

Configs ==
    ScheduleCfgs \cup NoReporterCfgs \cup DeviceCfgs \cup EvalCfgs \cup MetricCfgs \cup IntervalCfgs

\* --------------------------------------------------------------- variables
VARIABLES
    cfg,            \* self._cfg
    pc,             \* position of the running call; "idle" between calls
    call,           \* the entry point running (or last run)
    calls,          \* number of _fit/_resume_fit invocations so far
    net,            \* self.net: [ver: parameter version, vq: its mAP on the
                    \* validation set, -1 until it has been measured]
    epoch,          \* self.epoch
    best_map,       \* self._best_map
    time_elapsed,   \* self._time_elapsed
    last_train,     \* self.last_train (0: None)
    trainer,        \* self.trainer: [built, iters_per_epoch, num_update]
    checkpoint,     \* best_checkpoint.pkl: [has, net, epoch, best_map, time_elapsed]
    loop,           \* locals of _train_loop: [it, stop, i, nb, carry, shards, k, reads, current_map]
    clock,          \* [tic, btic]: time passed since tic, btic were assigned
    ret,            \* value returned by the last call
    err,            \* exception the last call raised ("none" if it returned)
    log,            \* history of the current call (ghost)
    arg,            \* argument of the last _predict call
    classes,        \* self.classes (<<>>: None)
    num_class,      \* self.num_class (0: None)
    ctx,            \* len(self.ctx) (0: not set)
    eval_metric,    \* the metric object of _evaluate: [hits, total]
    evals           \* the direct calls of _evaluate so far (ghost): [n, prev, last]

\* The fields bound from the dataset and the device list.
bound == <<classes, num_class, ctx>>

\* The state of the direct calls of _evaluate.
engine == <<eval_metric, evals>>

vars == <<cfg, pc, call, calls, net, epoch, best_map, time_elapsed, last_train,
          trainer, checkpoint, loop, clock, ret, err, log, arg, bound, engine>>

RECURSIVE SumSeq(_)
SumSeq(s) == IF s = <<>> THEN 0 ELSE Head(s) + SumSeq(Tail(s))

NoRet == [kind |-> "none", train_map |-> 0, valid_map |-> 0, time |-> 0, rows |-> <<>>]

\* No argument: the value of `arg` outside _predict.
NoArg == [type |-> "none", dets |-> <<>>, columns |-> {}, image |-> <<>>]

NoCheckpoint ==
    [has |-> FALSE, net |-> [ver |-> 0, vq |-> -1], epoch |-> 0, best_map |-> 0,
     time_elapsed |-> 0, completed |-> -1]

NoTrainer == [built |-> FALSE, iters_per_epoch |-> 0, num_update |-> 0]

\* The ghost history of one call, empty at its entry.  `completed` is the last
\* epoch whose body ran to its end on the parameters the estimator now holds,
\* `completed0` its value when the call was entered, `entry` the estimator's
\* fields when the call was entered.
EmptyLog(completed) ==
    [epochs |-> <<>>, vals |-> <<>>, ckpts |-> <<>>, reports |-> <<>>,
     splits |-> 0, backwards |-> 0, steps |-> 0, mult |-> 0, evalShards |-> <<>>,
     trainEvals |-> 0, netRuns |-> 0, completed |-> completed, completed0 |-> completed,
     lastSplit |-> [ok |-> TRUE, sizes |-> <<>>, size |-> 0, num |-> 1],
     entry |-> [net |-> net, epoch |-> epoch, best_map |-> best_map,
                time_elapsed |-> time_elapsed, checkpoint |-> checkpoint,
                ctx |-> ctx]]

\* self.classes
Classes == <<"cat", "dog">>

\* The metric object the previous call of _evaluate left behind.
StaleMetric == eval_metric

\* `eval_metric = VOC07MApMetric(...)` / `VOCMApMetric(...)`: a new metric
\* object, nothing accumulated.
FreshMetric == [hits |-> 0, total |-> 0]

NoResult == [ok |-> FALSE, ver |-> -1, names |-> <<>>, scores |-> <<>>]

\* No direct call yet.  `inrow`: the call before the last one was a direct call
\* too, with nothing between the two.
NoEvals == [n |-> 0, inrow |-> FALSE, prev |-> NoResult, last |-> NoResult]

NoClock == [tic |-> 0, btic |-> 0]

\* Time passing: n ticks later.
Later(n) == [tic |-> clock.tic + n, btic |-> clock.btic + n]

NoLoop ==
    [it |-> 0, stop |-> 0, i |-> 0, nb |-> 0, carry |-> 0, shards |-> <<>>, k |-> 0,
     reads |-> {}, current_map |-> 0]


\* ------------------------------------------------------------------ helpers
\* self.ctx: one context per configured gpu, a single cpu context when none.
NumCtx == IF cfg.gpus > 0 THEN cfg.gpus ELSE 1

\* gluon.utils.split_and_load on a batch of `size` items over `num` contexts:
\* the shard sizes, or a failure when even_split is set and num does not
\* divide size.  A single context takes the whole batch unsplit.
split_and_load(size, num, even_split) ==
    IF num = 1 THEN [ok |-> TRUE, sizes |-> <<size>>, size |-> size, num |-> num]
    ELSE IF even_split /\ size % num # 0
    THEN [ok |-> FALSE, sizes |-> <<>>, size |-> size, num |-> num]
    ELSE LET each == size \div num
             extras == size % num
         IN [ok |-> TRUE,
             sizes |-> [j \in 1..num |-> IF j <= extras THEN each + 1 ELSE each],
             size |-> size, num |-> num]

\* The training loop passes no even_split argument (the default is True).
TrainEvenSplit == TRUE

\* _evaluate passes even_split=False.
EvalEvenSplit == FALSE

\* Batch sizes of a DataLoader(last_batch='keep') over n items.
KeepBatches(n, b) ==
    [j \in 1..((n + b - 1) \div b) |-> IF j * b <= n THEN b ELSE n - (j - 1) * b]

\* Number of batches a DataLoader(last_batch='rollover') yields in an epoch
\* entered with `carry` items left over from the previous one.
RolloverBatches(carry, n, b) == (carry + n) \div b
RolloverCarry(carry, n, b) == (carry + n) % b

AlreadyDoneStrict(e) == Max(cfg.start_epoch, e) > cfg.epochs

\* The terminal condition tested by _fit and _resume_fit.
AlreadyDone(e) == Max(cfg.start_epoch, e) >= cfg.epochs

ValidationDueNoFinal(e) == e % cfg.interval = 0

\* `if (epoch % interval == 0) or (epoch == epochs - 1)`
ValidationDue(e) == (e % cfg.interval = 0) \/ (e = cfg.epochs - 1)

ImprovesOrEqual(m, best) == m >= best

\* `if current_map > self._best_map`
Improves(m, best) == m > best

\* `{'time', self._time_elapsed}`: a set literal, not a mapping.
TimeOnly(t) == [kind |-> "set", train_map |-> 0, valid_map |-> 0, time |-> t, rows |-> <<>>]

\* The record _train_loop returns.
ResultRecord(tm, vm, t) ==
    [kind |-> "dict", train_map |-> tm, valid_map |-> vm, time |-> t, rows |-> <<>>]

\* self.save(cp_name): the estimator pickled as it is at the moment of the call.
Snapshot ==
    [has |-> TRUE, net |-> net, epoch |-> epoch, best_map |-> best_map,
     time_elapsed |-> time_elapsed, completed |-> epoch]

\* _init_trainer: the schedule is built with train_size // batch_size
\* iterations per epoch.
_init_trainer(size) ==
    [built |-> TRUE, iters_per_epoch |-> size \div cfg.batch_size, num_update |-> 0]

\* _evaluate over a data set of n items whose mean average precision is m:
\* the metric is chosen by name first, then every batch is split over the
\* contexts.
_evaluate(n, m) ==
    IF cfg.metric \notin {"voc07", "voc"}
    THEN [ok |-> FALSE, map |-> 0, shards |-> <<>>]
    ELSE [ok |-> TRUE, map |-> m,
          shards |-> [j \in 1..Len(KeepBatches(n, cfg.valid_batch_size)) |->
                        split_and_load(KeepBatches(n, cfg.valid_batch_size)[j],
                                       NumCtx, EvalEvenSplit)]]

\* An exception leaves the call: control is back with the caller and the
\* locals of _train_loop are gone.
Raise(e) ==
    /\ pc' = "idle"
    /\ err' = e
    /\ ret' = NoRet
    /\ loop' = NoLoop
    /\ clock' = NoClock

\* --------------------------------------------------------------------- Init
\* The estimator after construction, apart from its configuration, the size of
\* the training set and the fields bound from the dataset.
Fresh ==
    /\ pc = "idle"
    /\ call = "none"
    /\ calls = 0
    /\ epoch = 0
    /\ best_map = 0
    /\ time_elapsed = 0
    /\ trainer = NoTrainer
    /\ checkpoint = NoCheckpoint
    /\ loop = NoLoop
    /\ clock = NoClock
    /\ ret = NoRet
    /\ err = "none"
    /\ log = EmptyLog(-1)
    /\ arg = NoArg
    /\ eval_metric = [hits |-> 0, total |-> 0]
    /\ evals = NoEvals

\* A constructed estimator with its dataset bound and its network built.
Init ==
    /\ cfg \in Configs
    /\ last_train = 0
    /\ classes = Classes
    /\ num_class = Len(Classes)
    /\ ctx = NumCtx
    /\ net = [ver |-> 0, vq |-> -1]
    /\ Fresh

\* ------------------------------------------------------------- entry points
\* _resume_fit from the terminal test on, for an estimator whose epoch is e:
\* return at once, or build the loaders and enter _train_loop.
ResumeFrom(e) ==
    IF AlreadyDone(e)
    THEN /\ pc' = "idle"
         /\ err' = "none"
         /\ ret' = TimeOnly(time_elapsed')
         /\ loop' = loop
    ELSE IF classes = <<>> \/ num_class = 0
    THEN /\ pc' = "idle"
         /\ err' = "ValueError"
         /\ ret' = NoRet
         /\ loop' = loop
    ELSE /\ pc' = "loop"
         /\ err' = "none"
         /\ ret' = NoRet
         /\ loop' = [NoLoop EXCEPT !.it = Max(cfg.start_epoch, e), !.stop = cfg.epochs]

CarriedBest == best_map

\* `self._best_map = 0`
InitialBest == 0

_fit ==
    /\ pc = "idle"
    /\ calls < MaxCalls
    /\ net.ver \in 0..(MaxVer - 1)
    /\ call' = "fit"
    /\ calls' = calls + 1
    /\ best_map' = InitialBest
    /\ epoch' = 0
    /\ time_elapsed' = 0
    /\ log' = EmptyLog(-1)
    /\ IF AlreadyDone(0)
       THEN /\ pc' = "idle"
            /\ err' = "none"
            /\ ret' = TimeOnly(0)
            /\ UNCHANGED <<last_train, trainer, loop>>
       ELSE /\ last_train' = cfg.train_size
            /\ trainer' = _init_trainer(cfg.train_size)
            /\ ResumeFrom(0)
    /\ arg' = NoArg
    /\ UNCHANGED <<bound, engine, cfg, net, checkpoint, clock>>

\* self.epoch, self._best_map and self._time_elapsed are assigned by _fit
\* alone: _resume_fit runs on an estimator that _fit has been called on.
_resume_fit ==
    /\ pc = "idle"
    /\ calls > 0
    /\ calls < MaxCalls
    /\ net.ver \in 0..(MaxVer - 1)
    /\ call' = "resume"
    /\ calls' = calls + 1
    /\ log' = EmptyLog(log.completed)
    /\ UNCHANGED <<best_map, epoch, time_elapsed>>
    /\ ResumeFrom(epoch)
    /\ arg' = NoArg
    /\ UNCHANGED <<bound, engine, cfg, net, checkpoint, clock, last_train, trainer>>

\* Between two calls the configured number of epochs is changed: the run is
\* extended by one epoch, or cut short at the epoch the estimator stands at.
\* The configuration never changes during a call.
set_epochs ==
    /\ pc = "idle"
    /\ calls > 0
    /\ calls < MaxCalls
    /\ net.ver < MaxVer
    /\ call \in {"fit", "resume", "load"}
    /\ \E e \in {epoch, cfg.epochs + 1} :
         /\ e # cfg.epochs
         /\ e <= MaxEpochs
         /\ cfg' = [cfg EXCEPT !.epochs = e]
    /\ call' = "config"
    /\ log' = EmptyLog(log.completed)
    /\ ret' = NoRet
    /\ err' = "none"
    /\ UNCHANGED <<bound, engine, arg, pc, calls, net, epoch, best_map, time_elapsed, last_train,
                   trainer, checkpoint, loop, clock>>

\* Restoring the estimator from best_checkpoint.pkl.
load ==
    /\ pc = "idle"
    /\ calls < MaxCalls
    /\ checkpoint.has
    /\ call \in {"fit", "resume", "config"}
    /\ call' = "load"
    /\ net' = checkpoint.net
    /\ epoch' = checkpoint.epoch
    /\ best_map' = checkpoint.best_map
    /\ time_elapsed' = checkpoint.time_elapsed
    /\ log' = EmptyLog(checkpoint.completed)
    /\ ret' = NoRet
    /\ err' = "none"
    /\ UNCHANGED <<bound, engine, cfg, arg, pc, calls, last_train, trainer, checkpoint, loop, clock>>

\* -------------------------------------------------------------- _train_loop
\* `for self.epoch in range(max(start_epoch, self.epoch), epochs)`: the next
\* epoch is entered, or the loop is left for the evaluation on the training set.
LoopNext ==
    /\ pc = "loop"
    /\ IF loop.it < loop.stop
       THEN /\ epoch' = loop.it
            /\ loop' = [loop EXCEPT
                          !.it = loop.it + 1,
                          !.i = 0,
                          !.nb = RolloverBatches(loop.carry, cfg.train_size, cfg.batch_size),
                          !.carry = RolloverCarry(loop.carry, cfg.train_size, cfg.batch_size)]
            /\ clock' = NoClock
            /\ log' = [log EXCEPT !.epochs = Append(log.epochs, loop.it)]
            /\ pc' = "batch"
       ELSE /\ pc' = "final_eval"
            /\ UNCHANGED <<epoch, loop, clock, log>>
    /\ UNCHANGED <<bound, engine, cfg, arg, call, calls, net, best_map, time_elapsed, last_train, trainer,
                   checkpoint, ret, err>>

\* `for i, batch in enumerate(train_data)`: the next batch is split over the
\* contexts, or the epoch's batches are exhausted.
NextBatch ==
    /\ pc = "batch"
    /\ IF loop.i < loop.nb
       THEN LET r == split_and_load(cfg.batch_size, NumCtx, TrainEvenSplit)
            IN IF r.ok
               THEN /\ loop' = [loop EXCEPT !.shards = r.sizes, !.k = 0, !.reads = {}]
                    /\ log' = [log EXCEPT !.splits = log.splits + 1, !.lastSplit = r]
                    /\ pc' = "forward"
                    /\ UNCHANGED <<ret, err, clock>>
               ELSE /\ Raise("ValueError")
                    /\ log' = [log EXCEPT !.lastSplit = r]
       ELSE /\ pc' = "epoch_end"
            /\ UNCHANGED <<loop, log, ret, err, clock>>
    /\ UNCHANGED <<bound, engine, cfg, arg, call, calls, net, epoch, best_map, time_elapsed, last_train,
                   trainer, checkpoint>>

\* One pass of the loop over zip(*split_data): self.net(x) and the three losses
\* of one shard.
ForwardShard ==
    /\ pc = "forward"
    /\ loop.k < Len(loop.shards)
    /\ loop' = [loop EXCEPT !.k = loop.k + 1, !.reads = loop.reads \cup {net.ver}]
    /\ UNCHANGED <<bound, engine, cfg, arg, pc, call, calls, net, epoch, best_map, time_elapsed, last_train,
                   trainer, checkpoint, clock, ret, err, log>>

\* autograd.backward(sum_losses): one gradient computation over all shards.
Backward ==
    /\ pc = "forward"
    /\ loop.k = Len(loop.shards)
    /\ log' = [log EXCEPT !.backwards = log.backwards + 1]
    /\ pc' = "step"
    /\ UNCHANGED <<bound, engine, cfg, arg, call, calls, net, epoch, best_map, time_elapsed, last_train,
                   trainer, checkpoint, loop, clock, ret, err>>

StepMultiplierBatch == cfg.batch_size

\* The multiplier handed to trainer.step: len(sum_losses), one loss per shard.
StepMultiplier == loop.k

\* self.trainer.step(len(sum_losses)), the metric updates and `btic = time.time()`.
\* The new parameters have not been measured on the validation set.
Step ==
    /\ pc = "step"
    /\ IF trainer.built
       THEN /\ net' = [ver |-> net.ver + 1, vq |-> -1]
            /\ trainer' = [trainer EXCEPT !.num_update = trainer.num_update + 1]
            /\ log' = [log EXCEPT !.steps = log.steps + 1, !.mult = StepMultiplier]
            /\ loop' = [loop EXCEPT !.i = loop.i + 1]
            /\ clock' = [tic |-> clock.tic + BatchTicks, btic |-> 0]
            /\ pc' = "batch"
            /\ UNCHANGED <<ret, err>>
       ELSE /\ Raise("AttributeError")
            /\ UNCHANGED <<net, trainer, log>>
    /\ UNCHANGED <<bound, engine, cfg, arg, call, calls, epoch, best_map, time_elapsed, last_train, checkpoint>>

\* After the batches of an epoch: is validation due?
EpochEnd ==
    /\ pc = "epoch_end"
    /\ pc' = IF ValidationDue(epoch) THEN "validate" ELSE "advance"
    /\ UNCHANGED <<bound, engine, cfg, arg, call, calls, net, epoch, best_map, time_elapsed, last_train,
                   trainer, checkpoint, loop, clock, ret, err, log>>

\* The scores the parameters may have on the validation set: the one measured
\* before, any score when they have not been measured.
Measurable == IF net.vq < 0 THEN Scores ELSE {net.vq}

MeasuredAndStepped(m) == [ver |-> net.ver + 1, vq |-> m]

\* The network after _evaluate has measured it: the same parameters, their
\* score now known.
Measured(m) == [net EXCEPT !.vq = m]

\* `map_name, mean_ap = self._evaluate(val_data)`, `current_map = float(mean_ap[-1])`
\* and the comparison with the running best.
Validate ==
    /\ pc = "validate"
    /\ \E m \in Measurable :
         LET r == _evaluate(cfg.val_size, m)
         IN IF r.ok
            THEN /\ net' = Measured(r.map)
                 /\ loop' = [loop EXCEPT !.current_map = r.map]
                 /\ log' = [log EXCEPT
                              !.vals = Append(log.vals, [epoch |-> epoch, map |-> r.map,
                                                          best |-> best_map]),
                              !.evalShards = r.shards]
                 /\ clock' = Later(EvalTicks)
                 /\ pc' = IF Improves(r.map, best_map) THEN "save" ELSE "report"
                 /\ UNCHANGED <<ret, err>>
            ELSE /\ Raise("ValueError")
                 /\ UNCHANGED <<net, log>>
    /\ UNCHANGED <<bound, engine, cfg, arg, call, calls, epoch, best_map, time_elapsed, last_train,
                   trainer, checkpoint>>

\* `self.save(cp_name)`
SaveCheckpoint ==
    /\ pc = "save"
    /\ checkpoint' = Snapshot
    /\ log' = [log EXCEPT
                 !.ckpts = Append(log.ckpts, [epoch |-> epoch, map |-> loop.current_map,
                                              best |-> best_map, i |-> loop.i, nb |-> loop.nb,
                                              started |-> log.splits, stepped |-> log.steps])]
    /\ pc' = "update_best"
    /\ UNCHANGED <<bound, engine, cfg, arg, call, calls, net, epoch, best_map, time_elapsed, last_train,
                   trainer, loop, clock, ret, err>>

\* `self._best_map = current_map`
UpdateBest ==
    /\ pc = "update_best"
    /\ best_map' = loop.current_map
    /\ pc' = "report"
    /\ UNCHANGED <<bound, engine, cfg, arg, call, calls, net, epoch, time_elapsed, last_train, trainer,
                   checkpoint, loop, clock, ret, err, log>>

ReportDueOnImprovement == cfg.reporter /\ best_map = loop.current_map

\* `if self._reporter:`
ReportDue == cfg.reporter

\* `if self._reporter: self._reporter(epoch=epoch, map_reward=current_map)`
Report ==
    /\ pc = "report"
    /\ log' = IF ReportDue
              THEN [log EXCEPT !.reports = Append(log.reports,
                                    [epoch |-> epoch, map |-> loop.current_map,
                                     saved |-> Len(log.ckpts), best |-> best_map])]
              ELSE log
    /\ pc' = "advance"
    /\ UNCHANGED <<bound, engine, cfg, arg, call, calls, net, epoch, best_map, time_elapsed, last_train,
                   trainer, checkpoint, loop, clock, ret, err>>

\* `self._time_elapsed += time.time() - btic`, the last statement of the epoch.
Advance ==
    /\ pc = "advance"
    /\ time_elapsed' = time_elapsed + clock.btic
    /\ log' = [log EXCEPT !.completed = epoch]
    /\ pc' = "loop"
    /\ UNCHANGED <<bound, engine, cfg, arg, call, calls, net, epoch, best_map, last_train, trainer,
                   checkpoint, loop, clock, ret, err>>

\* `self._evaluate(train_eval_data)` and the returned record.  The mean average
\* precision on the training set is some score.
FinalEval ==
    /\ pc = "final_eval"
    /\ \E m \in Scores :
         LET r == _evaluate(cfg.train_size, m)
         IN IF r.ok
            THEN /\ ret' = ResultRecord(r.map, best_map, time_elapsed)
                 /\ err' = "none"
                 /\ pc' = "idle"
                 /\ log' = [log EXCEPT !.trainEvals = log.trainEvals + 1,
                                       !.evalShards = r.shards]
                 /\ loop' = NoLoop
                 /\ clock' = NoClock
            ELSE /\ Raise("ValueError")
                 /\ UNCHANGED log
    /\ UNCHANGED <<bound, engine, cfg, arg, call, calls, net, epoch, best_map, time_elapsed, last_train,
                   trainer, checkpoint>>

\* ---------------------------------------------------------------- behaviours
Next ==
    \/ _fit
    \/ _resume_fit
    \/ load
    \/ set_epochs
    \/ LoopNext
    \/ NextBatch
    \/ ForwardShard
    \/ Backward
    \/ Step
    \/ EpochEnd
    \/ Validate
    \/ SaveCheckpoint
    \/ UpdateBest
    \/ Report
    \/ Advance
    \/ FinalEval

Spec == Init /\ [][Next]_vars

\* --------------------------------------------------- _evaluate, called directly
RECURSIVE Gcd(_, _)
Gcd(a, b) == IF b = 0 THEN a ELSE Gcd(b, a % b)

\* eval_metric.update on the shards of one batch: every item the network was
\* run on is matched against its ground truth and scores q.
MetricUpdate(m, sizes, q) ==
    [hits |-> m.hits + SumSeq(sizes) * q, total |-> m.total + SumSeq(sizes)]

\* eval_metric.get(): the class names with a trailing mean entry, and the
\* scores as fractions <<numerator, denominator>> in lowest terms.
MetricGet(m) ==
    LET g == Gcd(m.hits, m.total)
        mean == IF m.total = 0 THEN <<0, 0>> ELSE <<m.hits \div g, m.total \div g>>
    IN [names |-> Append(classes, "mAP"),
        scores |-> [j \in 1..(Len(classes) + 1) |-> mean]]

\* The batches of the validation loader.
ValBatches == KeepBatches(cfg.val_size, cfg.valid_batch_size)

\* _evaluate(val_data) up to its loop: the metric is chosen by name.  The
\* parameters have the score on the validation set they were measured with,
\* some score if they have not been measured.
EvaluateEnter ==
    /\ pc = "idle"
    /\ evals.n < MaxEvals
    /\ call' = "evaluate"
    /\ log' = EmptyLog(log.completed)
    /\ evals' = [evals EXCEPT !.n = evals.n + 1,
                              !.inrow = (call = "evaluate" /\ err = "none")]
    /\ IF cfg.metric \notin {"voc07", "voc"}
       THEN /\ Raise("ValueError")
            /\ UNCHANGED <<net, eval_metric>>
       ELSE /\ eval_metric' = FreshMetric
            /\ \E m \in Measurable : net' = Measured(m)
            /\ loop' = [NoLoop EXCEPT !.nb = Len(ValBatches)]
            /\ pc' = "eval_batch"
            /\ ret' = NoRet
            /\ err' = "none"
            /\ UNCHANGED clock
    /\ arg' = NoArg
    /\ UNCHANGED <<bound, cfg, calls, epoch, best_map, time_elapsed, last_train,
                   trainer, checkpoint>>

\* One pass of `for batch in val_data`: the batch is split over the contexts,
\* the network is run on every shard and the metric is updated.
EvaluateBatch ==
    /\ pc = "eval_batch"
    /\ loop.i < loop.nb
    /\ LET r == split_and_load(ValBatches[loop.i + 1], NumCtx, EvalEvenSplit)
       IN IF r.ok
          THEN /\ eval_metric' = MetricUpdate(eval_metric, r.sizes, net.vq)
               /\ loop' = [loop EXCEPT !.i = loop.i + 1, !.shards = r.sizes]
               /\ log' = [log EXCEPT !.netRuns = log.netRuns + Len(r.sizes),
                                     !.evalShards = Append(log.evalShards, r)]
               /\ UNCHANGED <<pc, ret, err, clock>>
          ELSE /\ Raise("ValueError")
               /\ UNCHANGED <<eval_metric, log>>
    /\ UNCHANGED <<bound, evals, cfg, arg, call, calls, net, epoch, best_map, time_elapsed,
                   last_train, trainer, checkpoint>>

\* `return eval_metric.get()`
EvaluateReturn ==
    /\ pc = "eval_batch"
    /\ loop.i = loop.nb
    /\ LET g == MetricGet(eval_metric)
       IN /\ ret' = [NoRet EXCEPT !.kind = "metric", !.rows = <<g.names, g.scores>>]
          /\ evals' = [evals EXCEPT
                         !.prev = evals.last,
                         !.last = [ok |-> TRUE, ver |-> net.ver, names |-> g.names,
                                   scores |-> g.scores]]
    /\ pc' = "idle"
    /\ err' = "none"
    /\ loop' = NoLoop
    /\ UNCHANGED <<bound, eval_metric, cfg, arg, call, calls, net, epoch, best_map,
                   time_elapsed, last_train, trainer, checkpoint, clock, log>>

InitEval == Init /\ cfg \in EvalCfgs \cup MetricCfgs

\* Direct calls of _evaluate before, between and after runs of _fit.
NextEval ==
    \/ _fit
    \/ LoopNext
    \/ NextBatch
    \/ ForwardShard
    \/ Backward
    \/ Step
    \/ EpochEnd
    \/ Validate
    \/ SaveCheckpoint
    \/ UpdateBest
    \/ Report
    \/ Advance
    \/ FinalEval
    \/ EvaluateEnter
    \/ EvaluateBatch
    \/ EvaluateReturn

SpecEval == InitEval /\ [][NextEval]_vars

\* ------------------------------------------------------ the learning-rate plan
\* Rates and factors are fractions <<numerator, denominator>> in lowest terms.
Frac(n, d) == LET g == Gcd(n, d) IN <<n \div g, d \div g>>

FracMul(a, b) == Frac(a[1] * b[1], a[2] * b[2])

RECURSIVE FracPow(_, _)
FracPow(a, k) == IF k = 0 THEN <<1, 1>> ELSE FracMul(a, FracPow(a, k - 1))

\* Configurations that vary the warmup length, the number of epochs, the decay
\* milestones and the number of iterations per epoch.
PlanCfgs ==
    {[epochs |-> e, start_epoch |-> 0, interval |-> 1, batch_size |-> b,
      valid_batch_size |-> 1, gpus |-> 0, train_size |-> n, val_size |-> 1,
      reporter |-> TRUE, metric |-> "voc07", warmup_epochs |-> w, lr |-> <<1, 10>>,
      lr_mode |-> "step", lr_decay |-> <<1, 10>>, lr_decay_epoch |-> d] :
        w \in 0..MaxWarmup, e \in 1..MaxEpochs, b \in 1..MaxBatch, n \in 1..MaxTrain,
        d \in {x \in SUBSET (1..MaxEpochs) : Cardinality(x) <= 2}}

\* warmup of 2 epochs, 10 epochs in all, lr 0.1
ScenarioCfgs ==
    {[epochs |-> 10, start_epoch |-> 0, interval |-> 1, batch_size |-> 1,
      valid_batch_size |-> 1, gpus |-> 0, train_size |-> 2, val_size |-> 1,
      reporter |-> TRUE, metric |-> "voc07", warmup_epochs |-> 2, lr |-> <<1, 10>>,
      lr_mode |-> "step", lr_decay |-> <<1, 10>>, lr_decay_epoch |-> {4, 7}]}

LRCfgs == {c \in PlanCfgs : c.warmup_epochs <= c.epochs} \cup ScenarioCfgs

UnshiftedDecayEpoch == cfg.lr_decay_epoch

\* `lr_decay_epoch = [e - self._cfg.train.warmup_epochs for e in lr_steps]`
lr_decay_epoch == {e - cfg.warmup_epochs : e \in cfg.lr_decay_epoch}

\* `num_batches = train_size // self._cfg.train.batch_size`
num_batches(size) == size \div cfg.batch_size

\* One phase of the plan: it lasts nepochs * iters_per_epoch iterations and
\* its milestones are counted in iterations from its start.
LRScheduler(mode, base_lr, target_lr, nepochs, iters_per_epoch, step_epoch, step_factor) ==
    LET epoch_iters == nepochs * iters_per_epoch
    IN [mode |-> mode, base_lr |-> base_lr, target_lr |-> target_lr,
        niters |-> IF epoch_iters > 0 THEN epoch_iters ELSE 0,
        step |-> IF epoch_iters > 0 THEN {m * iters_per_epoch : m \in step_epoch} ELSE {},
        step_factor |-> step_factor, offset |-> 0]

\* The phases in sequence: each starts where the one before ends.
LRSequential(first, second) ==
    <<first, [second EXCEPT !.offset = first.niters]>>

\* The plan _init_trainer builds for a training set of `size` items.
lr_scheduler(size) ==
    LRSequential(
        LRScheduler("linear", <<0, 1>>, cfg.lr, cfg.warmup_epochs, num_batches(size),
                    {}, <<1, 1>>),
        LRScheduler(cfg.lr_mode, cfg.lr, <<0, 1>>, cfg.epochs - cfg.warmup_epochs,
                    num_batches(size), lr_decay_epoch, cfg.lr_decay))

Min(a, b) == IF a <= b THEN a ELSE b

\* The rate of one phase at iteration t of the plan.  The linear phase moves
\* from base_lr = 0 to target_lr in niters - 1 equal steps; a phase of one
\* iteration has no step to divide by.
PhaseRate(ph, t) ==
    LET N == ph.niters - 1
        T == Min(Max(0, t - ph.offset), N)
    IN IF ph.mode = "linear"
       THEN IF N = 0 THEN [ok |-> FALSE, rate |-> <<0, 0>>]
            ELSE IF N < 0 THEN [ok |-> TRUE, rate |-> ph.target_lr]
            ELSE [ok |-> TRUE, rate |-> FracMul(ph.target_lr, Frac(T, N))]
       ELSE [ok |-> TRUE,
             rate |-> FracMul(ph.base_lr,
                              FracPow(ph.step_factor, Cardinality({m \in ph.step : m <= T})))]

\* The rate of the plan at iteration t: the phase that t falls into decides.
PlanRate(plan, t) ==
    LET count == plan[1].niters + plan[2].niters
        u == Min(t, count - 1)
    IN IF plan[1].niters > u THEN PhaseRate(plan[1], u) ELSE PhaseRate(plan[2], u)

\* A direct call of _init_trainer.
InitTrainer ==
    /\ pc = "idle"
    /\ call \in {"none", "init_network", "init_trainer", "fit", "resume"}
    /\ call' = "init_trainer"
    /\ log' = EmptyLog(log.completed)
    /\ ret' = NoRet
    /\ IF last_train = 0
       THEN /\ err' = "RuntimeError"
            /\ UNCHANGED trainer
       ELSE /\ err' = "none"
            /\ trainer' = _init_trainer(last_train)
    /\ UNCHANGED <<bound, engine, cfg, arg, pc, calls, net, epoch, best_map, time_elapsed,
                   last_train, checkpoint, loop, clock>>

\* self.trainer.learning_rate once the optimizer has counted t updates, for an
\* iteration t of the configured run.
learning_rate ==
    /\ pc = "idle"
    /\ trainer.built
    /\ call \in {"init_trainer", "learning_rate"}
    /\ call' = "learning_rate"
    /\ \E t \in 0..(cfg.epochs * trainer.iters_per_epoch - 1) :
         LET r == PlanRate(lr_scheduler(last_train), t)
         IN /\ ret' = [NoRet EXCEPT !.kind = "lr", !.rows = <<t, r.rate>>]
            /\ err' = IF r.ok THEN "none" ELSE "ZeroDivisionError"
    /\ UNCHANGED <<bound, engine, cfg, arg, pc, calls, net, epoch, best_map, time_elapsed,
                   last_train, trainer, checkpoint, loop, clock, log>>

InitLR ==
    /\ cfg \in LRCfgs
    /\ last_train = cfg.train_size
    /\ classes = Classes
    /\ num_class = Len(Classes)
    /\ ctx = NumCtx
    /\ net = [ver |-> 0, vq |-> -1]
    /\ Fresh

NextLR ==
    \/ InitTrainer
    \/ learning_rate

SpecLR == InitLR /\ [][NextLR]_vars

\* ----------------------------------------------------------------- builders
\* self.net before _init_network has assigned it.
NoNet == [ver |-> -1, vq |-> -1]

Unchecked == "none"

\* `if not self.num_class: raise ValueError` / `assert len(self.classes) ==
\* self.num_class`: the error _init_network leaves with before line 256.
NetworkError ==
    IF num_class = 0 THEN "ValueError"
    ELSE IF Len(classes) # num_class THEN "AssertionError"
    ELSE "none"

\* A direct call of _init_network: the checks, then self.ctx and self.net.
_init_network ==
    /\ pc = "idle"
    /\ call \in {"none", "init_network", "init_trainer", "fit", "resume"}
    /\ call' = "init_network"
    /\ log' = EmptyLog(log.completed)
    /\ ret' = NoRet
    /\ err' = NetworkError
    /\ IF NetworkError # "none"
       THEN UNCHANGED <<ctx, net>>
       ELSE /\ ctx' = NumCtx
            /\ net' = [ver |-> 0, vq |-> -1]
    /\ UNCHANGED <<classes, num_class, engine, cfg, arg, pc, calls, epoch, best_map,
                   time_elapsed, last_train, trainer, checkpoint, loop, clock>>

\* What the dataset bound to the estimator may have left in self.classes and
\* self.num_class.
Bindings == {<<>>, <<"cat">>, Classes} \X {0, Len(Classes)}

\* Runs of at most one epoch, already complete on entry or not.
BuildCfgs == {c \in ScheduleCfgs : c.interval = 1 /\ c.epochs <= c.start_epoch + 1}

\* A constructed estimator: its classes bound or not, its network built by an
\* earlier call or not, the size of its training set not yet known.
InitBuild ==
    /\ cfg \in BuildCfgs
    /\ last_train = 0
    /\ \E b \in Bindings : classes = b[1] /\ num_class = b[2]
    /\ \/ ctx = 0 /\ net = NoNet
       \/ ctx = NumCtx /\ net = [ver |-> 0, vq |-> -1]
    /\ Fresh

NextBuild ==
    \/ _init_network
    \/ InitTrainer
    \/ _fit
    \/ _resume_fit
    \/ LoopNext
    \/ NextBatch
    \/ ForwardShard
    \/ Backward
    \/ Step
    \/ EpochEnd
    \/ Validate
    \/ SaveCheckpoint
    \/ UpdateBest
    \/ Report
    \/ Advance
    \/ FinalEval

SpecBuild == InitBuild /\ [][NextBuild]_vars

\* ------------------------------------------------ properties of the builders
UnknownNetworkClasses == num_class = 0 \/ Len(classes) # num_class

UnknownClasses == classes = <<>> \/ num_class = 0

\* The terminal test as the call in progress evaluated it on entry.
DoneOnEntry == IF call = "fit" THEN AlreadyDone(0) ELSE AlreadyDone(log.entry.epoch)

\* C15 as stated: _init_network on an unknown class count or on a class list
\* of another length raises and leaves self.net and self.ctx as they were;
\* _init_trainer without a training-set size raises and leaves self.trainer as
\* it was; _resume_fit with unknown classes raises with no loader built and no
\* batch processed.
C15_BuildersFailFirst ==
    /\ (call = "init_network" /\ UnknownNetworkClasses) =>
           /\ err \in {"ValueError", "AssertionError"}
           /\ net = log.entry.net
           /\ ctx = log.entry.ctx
    /\ (call = "init_trainer" /\ last_train = 0) =>
           /\ err = "RuntimeError"
           /\ trainer = NoTrainer
    /\ (call = "resume" /\ UnknownClasses) =>
           /\ pc = "idle"
           /\ err = "ValueError"
           /\ loop = NoLoop
           /\ log.splits = 0
           /\ log.netRuns = 0

\* C15 amended: as stated for the two builders; _resume_fit with unknown
\* classes builds no loader and processes no batch, and it raises unless the
\* run is already complete on entry, in which case it returns the elapsed time
\* without an error.
C15_BuildersFailFirstUnlessDone ==
    /\ (call = "init_network" /\ UnknownNetworkClasses) =>
           /\ err \in {"ValueError", "AssertionError"}
           /\ net = log.entry.net
           /\ ctx = log.entry.ctx
    /\ (call = "init_trainer" /\ last_train = 0) =>
           /\ err = "RuntimeError"
           /\ trainer = NoTrainer
    /\ (call = "resume" /\ UnknownClasses) =>
           /\ pc = "idle"
           /\ loop = NoLoop
           /\ log.splits = 0
           /\ log.netRuns = 0
           /\ IF DoneOnEntry
              THEN err = "none" /\ ret = TimeOnly(time_elapsed)
              ELSE err = "ValueError" /\ ret = NoRet

\* A trained network survives a failed rebuild: the class list has one name
\* for two declared classes.
C15_Witness ==
    /\ call = "init_network"
    /\ err = "AssertionError"
    /\ net.ver > 0
    /\ trainer.built
    /\ ctx = NumCtx

\* ------------------------------------------------- properties of the rate plan
\* The closed form of the plan: w warmup epochs of n iterations each, then the
\* step decay with every milestone m counted from overall epoch m.
Decayed(t) ==
    LET n == cfg.train_size \div cfg.batch_size
    IN FracMul(cfg.lr, FracPow(cfg.lr_decay,
                               Cardinality({m \in cfg.lr_decay_epoch : m * n <= t})))

Queried == call = "learning_rate" /\ ret.kind = "lr"

Boxes == {<<1, 0, ImgW, ImgH - 1>>, <<-1, -1, ImgW + 1, ImgH + 1>>}

\* Confidence scores: 0, the smallest positive score, a larger one.
Confidences == {0, 1, 2}

\* The slot that pads the output to its fixed length.
Padding == [id |-> -1, score |-> -1, box |-> <<-1, -1, -1, -1>>]

\* One slot of the fixed-length top-k output (ids, scores, bboxes).
Slots ==
    [id : 0..(Len(Classes) - 1), score : Confidences, box : Boxes] \cup {Padding}

RECURSIVE SeqsOf(_, _)
SeqsOf(S, n) ==
    IF n = 0 THEN {<<>>}
    ELSE {Append(q, e) : q \in SeqsOf(S, n - 1), e \in S}

SeqsUpTo(S, n) == UNION {SeqsOf(S, m) : m \in 0..n}

NonIncreasing(q) == \A j \in 1..(Len(q) - 1) : q[j] >= q[j + 1]

\* A path (str) or a decoded image (NDArray), with the network's output on it.
Image(t, d) == [type |-> t, dets |-> d, columns |-> {}, image |-> <<>>]

Images == {Image(t, d) : t \in {"str", "ndarray"}, d \in SeqsOf(Slots, MaxTopK)}

\* Anything that is neither str, NDArray nor DataFrame.
Unsupported == [type |-> "other", dets |-> <<>>, columns |-> {}, image |-> <<>>]

\* Cells of a table's `image` column: paths whose detections come in
\* descending score order, and an unsupported value.
Cells ==
    {Image("str", [j \in 1..MaxTopK |->
                     IF sc[j] < 0 THEN Padding
                     ELSE [id |-> 0, score |-> sc[j], box |-> <<1, 0, ImgW, ImgH - 1>>]]) :
        sc \in {q \in SeqsOf(Confidences \cup {-1}, MaxTopK) : NonIncreasing(q)}}
    \cup {Unsupported}

Table(cols, cells) == [type |-> "table", dets |-> <<>>, columns |-> cols, image |-> cells]

\* Three rows, each image with two detections above and three not above 0.
ThreeRowTable ==
    LET img(c) == Image("str", [j \in 1..5 |->
                                  IF j > 3 THEN Padding
                                  ELSE [id |-> c, score |-> 3 - j, box |-> <<1, 0, ImgW, ImgH - 1>>]])
    IN Table({"image"}, <<img(0), img(1), img(0)>>)

Tables ==
    {Table({"image"}, c) : c \in SeqsUpTo(Cells, MaxRows)}
    \cup {Table({"path"}, <<>>), ThreeRowTable}

PredictInputs == Images \cup Tables \cup {Unsupported}

\* `bboxes[:, (0, 2)] /= width` and np.clip(., 0.0, 1.0): the quotient p / size
\* as a fraction <<numerator, denominator>>.
Clip(p, size) ==
    IF p <= 0 THEN <<0, 1>> ELSE IF p >= size THEN <<1, 1>> ELSE <<p, size>>

\* self.classes[int(id)]; a negative index counts from the end of the list.
ClassOf(id) == Classes[IF id < 0 THEN Len(Classes) + id + 1 ELSE id + 1]

\* One row of the data frame built from a slot.
Row(slot) ==
    [predict_class |-> ClassOf(slot.id),
     predict_score |-> slot.score,
     predict_rois |-> [xmin |-> Clip(slot.box[1], ImgW), ymin |-> Clip(slot.box[2], ImgH),
                       xmax |-> Clip(slot.box[3], ImgW), ymax |-> Clip(slot.box[4], ImgH)],
     image |-> NoArg]

ValidNonNegative(row) == row.predict_score >= 0

\* `df[df['predict_score'] > 0]`
Valid(row) == row.predict_score > 0

\* _predict on a str or an NDArray: the network runs once.
PredictImage(x) ==
    SelectSeq([j \in 1..Len(x.dets) |-> Row(x.dets[j])], Valid)

\* `y['image'] = x`
Tag(rows, x) == [j \in 1..Len(rows) |-> [rows[j] EXCEPT !.image = x]]

RECURSIVE ConcatAll(_)
ConcatAll(frames) ==
    IF frames = <<>> THEN <<>> ELSE Head(frames) \o ConcatAll(Tail(frames))

\* Index of the first cell the recursive call rejects, 0 if there is none.
FirstBad(cells) ==
    IF \E j \in 1..Len(cells) : cells[j].type \notin {"str", "ndarray"}
    THEN CHOOSE j \in 1..Len(cells) :
            /\ cells[j].type \notin {"str", "ndarray"}
            /\ \A l \in 1..(j - 1) : cells[l].type \in {"str", "ndarray"}
    ELSE 0

\* _predict(x): the rows returned or the exception raised, and how often the
\* network was run.
PredictResult(x) ==
    CASE x.type \in {"str", "ndarray"} ->
            [err |-> "none", rows |-> PredictImage(x), runs |-> 1]
      [] x.type = "table" ->
            IF "image" \notin x.columns
            THEN [err |-> "AssertionError", rows |-> <<>>, runs |-> 0]
            ELSE IF FirstBad(x.image) # 0
            THEN [err |-> "ValueError", rows |-> <<>>, runs |-> FirstBad(x.image) - 1]
            ELSE IF x.image = <<>>
            THEN [err |-> "ValueError", rows |-> <<>>, runs |-> 0]
            ELSE [err |-> "none",
                  rows |-> ConcatAll([j \in 1..Len(x.image) |->
                                        Tag(PredictImage(x.image[j]), x.image[j])]),
                  runs |-> Len(x.image)]
      [] OTHER -> [err |-> "ValueError", rows |-> <<>>, runs |-> 0]

\* _predict reads the estimator and changes none of its fields, so one call
\* from each state covers every call.
_predict ==
    /\ pc = "idle"
    /\ call = "none"
    /\ \E x \in PredictInputs :
         LET r == PredictResult(x)
         IN /\ arg' = x
            /\ err' = r.err
            /\ ret' = [NoRet EXCEPT !.kind = IF r.err = "none" THEN "frame" ELSE "none",
                                    !.rows = r.rows]
            /\ log' = [EmptyLog(log.completed) EXCEPT !.netRuns = r.runs]
    /\ call' = "predict"
    /\ UNCHANGED <<bound, engine, cfg, pc, calls, net, epoch, best_map, time_elapsed, last_train,
                   trainer, checkpoint, loop, clock>>

InitPredict == Init /\ cfg \in MetricCfgs

NextPredict == _predict

SpecPredict == InitPredict /\ [][NextPredict]_vars

\* ------------------------------------- every reader and writer of the network
\* Training, validation, the final evaluation, _evaluate called directly and
\* _predict on one estimator.
InitParams == InitEval

NextParams ==
    \/ NextEval
    \/ _predict

SpecParams == InitParams /\ [][NextParams]_vars

\* ---------------------------------------------------------------- properties
Training == call \in {"fit", "resume"}

\* The call ran no batch, optimizer step, evaluation or checkpoint write.
NoWork ==
    /\ log.epochs = <<>>
    /\ log.splits = 0
    /\ log.backwards = 0
    /\ log.steps = 0
    /\ log.vals = <<>>
    /\ log.trainEvals = 0
    /\ log.ckpts = <<>>
    /\ log.reports = <<>>
    /\ checkpoint = log.entry.checkpoint

\* The network and the training state are what they were when the call was entered.
SameAsEntry ==
    /\ net = log.entry.net
    /\ epoch = log.entry.epoch
    /\ best_map = log.entry.best_map
    /\ time_elapsed = log.entry.time_elapsed

\* C1 as stated: a _fit or _resume_fit entered with current_epoch >= E or
\* start_epoch >= E returns without any work and leaves the network,
\* current_epoch, the best score and the elapsed time as they were.
C1_EntryPointIsNoOp ==
    (Training /\ (log.entry.epoch >= cfg.epochs \/ cfg.start_epoch >= cfg.epochs))
        => (pc = "idle" /\ err = "none" /\ NoWork /\ SameAsEntry)

\* C1 amended: _resume_fit entered with max(start_epoch, current_epoch) >= E
\* returns without any work and leaves the network, current_epoch, the best
\* score and the elapsed time as they were; _fit first resets current_epoch,
\* the best score and the elapsed time to 0, and returns without any work and
\* with the network unchanged exactly when start_epoch >= E, whatever
\* current_epoch was before the call.
C1_ResumeIsNoOpFitResets ==
    /\ (call = "resume" /\ (log.entry.epoch >= cfg.epochs \/ cfg.start_epoch >= cfg.epochs))
          => (pc = "idle" /\ err = "none" /\ NoWork /\ SameAsEntry /\ ret.kind = "set"
              /\ ret.time = log.entry.time_elapsed)
    /\ (call = "fit" /\ cfg.start_epoch >= cfg.epochs)
          => (pc = "idle" /\ err = "none" /\ NoWork /\ net = log.entry.net
              /\ epoch = 0 /\ best_map = 0 /\ time_elapsed = 0 /\ ret.kind = "set")
    /\ (call = "fit" /\ cfg.start_epoch < cfg.epochs)
          => (log.epochs # <<>> \/ pc = "loop")

\* A _resume_fit returned at once on an estimator that had trained before and
\* holds a best score and an elapsed time.
C1_Witness ==
    /\ call = "resume"
    /\ log.entry.epoch >= cfg.epochs
    /\ log.entry.epoch > 0
    /\ log.entry.best_map > 0
    /\ log.entry.time_elapsed > 0
    /\ pc = "idle"
    /\ ret.kind = "set"

\* C2: a _resume_fit never trains an epoch that the run it resumes has
\* already completed: the first epoch it enters lies after the last completed one.
C2_ResumeNeverRedoes ==
    (call = "resume" /\ log.epochs # <<>>) => log.epochs[1] > log.completed0

\* Number of validations of epoch e recorded in the current call.
ValCount(e) == Cardinality({j \in 1..Len(log.vals) : log.vals[j].epoch = e})

\* The j-th epoch of the call has passed the point where validation is decided and run.
Settled(j) ==
    \/ j < Len(log.epochs)
    \/ pc \in {"save", "update_best", "report", "advance", "loop", "final_eval"}
    \/ (pc = "idle" /\ err = "none")

\* C3: in a run over epochs start..E-1 with interval v, validation runs after
\* epoch e exactly when e % v = 0 or e = E-1, and then exactly once; with v = 5
\* and E = 12 it runs after epochs 0, 5, 10 and 11 only.
C3_ValidationSchedule ==
    Training =>
        /\ \A j \in 1..Len(log.epochs) :
             LET e == log.epochs[j]
             IN ValCount(e) = IF Settled(j) /\ (e % cfg.interval = 0 \/ e = cfg.epochs - 1)
                              THEN 1 ELSE 0
        /\ \A j \in 1..Len(log.vals) : \E l \in 1..Len(log.epochs) : log.epochs[l] = log.vals[j].epoch
        /\ (pc = "idle" /\ err = "none" /\ ret.kind = "dict")
              => log.epochs = [j \in 1..(cfg.epochs - log.epochs[1]) |-> log.epochs[1] + j - 1]
        /\ (pc = "idle" /\ err = "none" /\ ret.kind = "dict" /\ call = "fit"
            /\ cfg.interval = 5 /\ cfg.epochs = 12)
              => [j \in 1..Len(log.vals) |-> log.vals[j].epoch] = <<0, 5, 10, 11>>

\* A 12-epoch run with interval 5 has returned.
C3_Witness ==
    /\ call = "fit"
    /\ cfg.interval = 5
    /\ cfg.epochs = 12
    /\ pc = "idle"
    /\ ret.kind = "dict"
    /\ Len(log.vals) = 4

Last(q) == q[Len(q)]

\* The validations of the current call that beat the best score of their moment.
Improving == SelectSeq(log.vals, LAMBDA v : v.map > v.best)

\* C4: a checkpoint is written at an epoch exactly when that epoch was
\* validated with a score strictly above the running best of that moment; a
\* score equal to or below it writes none and leaves the running best as it
\* is; every write comes after the last batch of its epoch and before the
\* first batch of the next.
C4_CheckpointOnStrictImprovement ==
    Training =>
        /\ Len(log.ckpts) = IF pc = "save" THEN Len(Improving) - 1 ELSE Len(Improving)
        /\ \A j \in 1..Len(log.ckpts) :
             /\ log.ckpts[j].epoch = Improving[j].epoch
             /\ log.ckpts[j].map = Improving[j].map
             /\ log.ckpts[j].i = log.ckpts[j].nb
             /\ log.ckpts[j].started = log.ckpts[j].stepped
        /\ \A j \in 1..Len(log.vals) :
             LET v == log.vals[j]
                 after == IF j < Len(log.vals) THEN log.vals[j + 1].best ELSE best_map
             IN IF v.map > v.best
                THEN (j < Len(log.vals) \/ pc \notin {"save", "update_best"}) => after = v.map
                ELSE after = v.best
        /\ (log.ckpts = <<>>) => checkpoint = log.entry.checkpoint
        /\ (log.ckpts # <<>>) => (checkpoint.has /\ checkpoint.epoch = Last(log.ckpts).epoch)

\* A run wrote a checkpoint and later validated with a score equal to its
\* running best, which is above 0.
C4_Witness ==
    /\ Training
    /\ log.ckpts # <<>>
    /\ \E j \in 1..Len(log.vals) : log.vals[j].map = log.vals[j].best /\ log.vals[j].best > 0
    /\ \E j \in 1..Len(log.vals) : log.vals[j].map = 0 /\ log.vals[j].best = 0
    /\ pc = "idle"

\* C5: the checkpoint written on an improving validation records the improving
\* score as best_map and the parameters that were evaluated, so that loading
\* it restores the best score the run holds right after the improvement.
C5_CheckpointHoldsImprovingScore ==
    (Training /\ pc = "report" /\ log.ckpts # <<>> /\ Last(log.ckpts).epoch = epoch)
        => (checkpoint.net = net /\ checkpoint.best_map = best_map)

\* Shard sizes of a successful split: they sum to the batch size, all equal
\* when the device count divides it, otherwise none larger than the one before
\* and the last one smaller than the first.
GoodSplit(r) ==
    /\ r.ok
    /\ Len(r.sizes) >= 1
    /\ SumSeq(r.sizes) = r.size
    /\ IF r.size % Len(r.sizes) = 0
       THEN \A j \in 1..Len(r.sizes) : r.sizes[j] = r.size \div Len(r.sizes)
       ELSE /\ \A j \in 1..(Len(r.sizes) - 1) : r.sizes[j] >= r.sizes[j + 1]
            /\ Last(r.sizes) < r.sizes[1]

\* C6: in the training loop and in _evaluate alike, splitting a batch over the
\* devices succeeds and the shard sizes sum to the batch size.
C6_SplitNeverFails ==
    /\ (log.lastSplit.size > 0) => GoodSplit(log.lastSplit)
    /\ \A j \in 1..Len(log.evalShards) : GoodSplit(log.evalShards[j])

\* C7: every training batch gets one gradient computation over all its shards
\* and then one optimizer step, whose multiplier is the number of shards of
\* the batch, the length of the device list.
C7_OneStepPerBatch ==
    Training =>
        /\ log.backwards = IF pc = "forward" THEN log.splits - 1 ELSE log.splits
        /\ log.steps = IF pc \in {"forward", "step"} \/ err = "AttributeError"
                       THEN log.splits - 1 ELSE log.splits
        /\ (pc = "step") => loop.k = Len(loop.shards)
        /\ (pc \in {"forward", "step"}) => Len(loop.shards) = NumCtx
        /\ (log.steps > 0) => log.mult = NumCtx
        /\ trainer.built => log.steps <= trainer.num_update

\* Two batches have been stepped on two devices.
C7_Witness ==
    /\ Training
    /\ NumCtx = 2
    /\ log.steps >= 2
    /\ log.mult = 2

\* C10: with a reporter configured, it is called once for every validated
\* epoch, with that epoch and its score whether or not the score improved,
\* after the checkpoint write of the epoch if there is one, in increasing
\* epoch order, and neither for an epoch that was not validated nor for the
\* evaluation on the training set; without a reporter nothing is reported.
C10_ReportPerValidatedEpoch ==
    Training =>
        IF cfg.reporter
        THEN /\ Len(log.reports) =
                    IF pc \in {"save", "update_best", "report"}
                    THEN Len(log.vals) - 1 ELSE Len(log.vals)
             /\ \A j \in 1..Len(log.reports) :
                  /\ log.reports[j].epoch = log.vals[j].epoch
                  /\ log.reports[j].map = log.vals[j].map
                  /\ log.reports[j].saved =
                        Cardinality({l \in 1..j : log.vals[l].map > log.vals[l].best})
                  /\ log.reports[j].best = log.reports[j].map
                        \/ log.vals[j].map <= log.vals[j].best
             /\ \A j \in 1..(Len(log.reports) - 1) :
                  log.reports[j].epoch < log.reports[j + 1].epoch
        ELSE log.reports = <<>>

\* A run reported an improving and a non-improving validation and has
\* returned after the evaluation on the training set.
C10_Witness ==
    /\ Training
    /\ cfg.reporter
    /\ pc = "idle"
    /\ log.trainEvals = 1
    /\ Len(log.reports) >= 2
    /\ \E j \in 1..Len(log.vals) : log.vals[j].map > log.vals[j].best
    /\ \E j \in 1..Len(log.vals) : log.vals[j].map <= log.vals[j].best
    /\ \E e \in 0..MaxEpochs :
         /\ \E j \in 1..Len(log.epochs) : log.epochs[j] = e
         /\ \A j \in 1..Len(log.reports) : log.reports[j].epoch # e

\* C12: every _fit or _resume_fit that returns, whether the epoch loop ran or
\* was skipped, has run _evaluate exactly once on the training set after the
\* last epoch and returns the record of train_map, valid_map (the running best
\* validation score) and time (the cumulative elapsed time).
C12_ResultRecordOnBothPaths ==
    (Training /\ pc = "idle" /\ err = "none") =>
        /\ ret.kind = "dict"
        /\ log.trainEvals = 1
        /\ ret.valid_map = best_map
        /\ ret.time = time_elapsed

\* ------------------------------------------------------- properties: _predict
\* Positions of the slots with a positive score, in slot order.
Positive(dets) == SelectSeq([j \in 1..Len(dets) |-> j], LAMBDA j : dets[j].score > 0)

\* The fraction f lies in [0, 1] and equals p / size clipped to [0, 1].
Normalised(f, p, size) ==
    /\ f[2] > 0
    /\ 0 <= f[1]
    /\ f[1] <= f[2]
    /\ (p < 0) => f[1] = 0
    /\ (p > size) => f[1] = f[2]
    /\ (0 <= p /\ p <= size) => f[1] * size = p * f[2]

\* The row is the one built from the slot.
RowOf(row, slot) ==
    /\ row.predict_score = slot.score
    /\ row.predict_class = Classes[IF slot.id >= 0 THEN slot.id + 1 ELSE Len(Classes)]
    /\ Normalised(row.predict_rois.xmin, slot.box[1], ImgW)
    /\ Normalised(row.predict_rois.ymin, slot.box[2], ImgH)
    /\ Normalised(row.predict_rois.xmax, slot.box[3], ImgW)
    /\ Normalised(row.predict_rois.ymax, slot.box[4], ImgH)

Supported(cells) == \A j \in 1..Len(cells) : cells[j].type \in {"str", "ndarray"}

\* Number of output rows that the first n cells account for.
RECURSIVE RowsBefore(_, _)
RowsBefore(cells, n) ==
    IF n = 0 THEN 0 ELSE RowsBefore(cells, n - 1) + Len(Positive(cells[n].dets))

\* C9: for a table with an `image` column the result is the concatenation, in
\* row order, of the results of its cells, each row tagged with its cell; a
\* table without the column and an input of an unsupported type fail before
\* the network is run.
C9_TableConcatenates ==
    (call = "predict") =>
        /\ (arg.type = "table" /\ "image" \in arg.columns /\ Supported(arg.image)) =>
              /\ err = "none"
              /\ Len(ret.rows) = RowsBefore(arg.image, Len(arg.image))
              /\ \A c \in 1..Len(arg.image) :
                   \A j \in 1..Len(Positive(arg.image[c].dets)) :
                      LET row == ret.rows[RowsBefore(arg.image, c - 1) + j]
                      IN /\ row.image = arg.image[c]
                         /\ RowOf(row, arg.image[c].dets[Positive(arg.image[c].dets)[j]])
              /\ log.netRuns = Len(arg.image)
        /\ (arg.type = "table" /\ "image" \notin arg.columns) => (err # "none" /\ log.netRuns = 0)
        /\ (arg.type = "other") => (err = "ValueError" /\ log.netRuns = 0)

\* ----------------------------------------------------- properties: _evaluate
\* C11: two direct calls of _evaluate in a row, with nothing between them,
\* return the same names and scores, and the score is the one the parameters
\* have on the validation set; during and after a call the parameters,
\* current_epoch, the best score, the elapsed time and the checkpoint are what
\* they were when the call was entered.
C11_EvaluationIdempotent ==
    (call = "evaluate") =>
        /\ (pc = "idle" /\ err = "none" /\ evals.inrow /\ evals.prev.ok) =>
              /\ evals.last.names = evals.prev.names
              /\ evals.last.scores = evals.prev.scores
        /\ (pc = "idle" /\ err = "none") =>
              /\ evals.last.names = Append(classes, "mAP")
              /\ evals.last.scores[Len(evals.last.scores)] = <<net.vq, 1>>
        /\ net.ver = log.entry.net.ver
        /\ epoch = log.entry.epoch
        /\ best_map = log.entry.best_map
        /\ time_elapsed = log.entry.time_elapsed
        /\ checkpoint = log.entry.checkpoint

\* A second direct call in a row has returned, on parameters that were
\* trained after an earlier direct call measured other parameters.
C11_Witness ==
    /\ call = "evaluate"
    /\ pc = "idle"
    /\ err = "none"
    /\ evals.inrow
    /\ evals.prev.ok
    /\ evals.n = MaxEvals
    /\ net.ver > 0
    /\ net.vq > 0
    /\ NumCtx = 2

\* C14: with a validation metric name other than the two supported ones, a
\* training run raises the error before any training batch is processed (no
\* batch split, optimizer step, best-score update or checkpoint write comes
\* before it), and a direct call of _evaluate raises it before any batch is
\* evaluated.
C14_BadMetricSurfacesAtOnce ==
    (cfg.metric \notin {"voc07", "voc"}) =>
        /\ Training =>
              /\ log.splits = 0
              /\ log.steps = 0
              /\ net.ver = log.entry.net.ver
              /\ best_map = 0
              /\ log.ckpts = <<>>
              /\ (pc = "idle" /\ log.entry.epoch < cfg.epochs) => err = "ValueError"
        /\ (call = "evaluate") =>
              /\ pc = "idle"
              /\ err = "ValueError"
              /\ log.netRuns = 0
              /\ log.evalShards = <<>>

\* ---------------------------------------------- properties of the run's order
\* The epoch a training call starts at.
StartOfRun == Max(cfg.start_epoch, IF call = "fit" THEN 0 ELSE log.entry.epoch)

\* C16: a training run entered with s = max(start_epoch, current_epoch) < E
\* enters the epochs s, s+1, ... in this order, none skipped or repeated; the
\* validation of an epoch comes after its batches and before the next epoch;
\* and the run ends in Done, without an error, after exactly E - s epochs, with
\* current_epoch at the last epoch trained.
C16_RunReachesDone ==
    (Training /\ StartOfRun < cfg.epochs) =>
        /\ \A j \in 1..Len(log.epochs) : log.epochs[j] = StartOfRun + j - 1
        /\ \A j \in 1..Len(log.vals) :
               /\ \E i \in 1..Len(log.epochs) : log.vals[j].epoch = log.epochs[i]
               /\ (j > 1) => log.vals[j - 1].epoch < log.vals[j].epoch
        /\ (pc \in {"batch", "forward", "backward", "step", "epoch_end"}) =>
               /\ epoch = Last(log.epochs)
               /\ ValCount(epoch) = 0
        /\ (pc \in {"validate", "save", "update_best", "report"}) =>
               /\ epoch = Last(log.epochs)
               /\ loop.i = loop.nb
        /\ (pc = "idle") =>
               /\ err = "none"
               /\ Len(log.epochs) = cfg.epochs - StartOfRun
               /\ epoch = cfg.epochs - 1

\* -------------------------------------- properties of the steps and the clock
\* C17: every epoch takes floor(train_size / batch_size) optimizer steps, the
\* iterations per epoch the schedule was built with, so that after k completed
\* epochs of a run started by _fit the optimizer has counted exactly
\* k * floor(train_size / batch_size) updates.
C17_StepsMatchSchedule ==
    Training =>
        LET n == cfg.train_size \div cfg.batch_size
        IN /\ trainer.built => trainer.iters_per_epoch = n
           /\ (pc = "epoch_end") => loop.i = n
           /\ (call = "fit" /\ pc \in {"loop", "final_eval"}) =>
                 trainer.num_update = Len(log.epochs) * n

\* C18: the last statement of every epoch, validated or not, adds to the
\* cumulative elapsed time the full duration of that epoch, measured from the
\* epoch's start through its batches and any validation.
C18_ElapsedGrowsByEpoch ==
    [][(pc = "advance" /\ pc' = "loop") => time_elapsed' = time_elapsed + clock.tic]_vars

\* --------------------------------------------- properties of the parameters
\* C19: the parameters change only by the optimizer step of the training loop.
\* Within a batch every forward pass reads the same version; the step of a
\* batch is over before the next batch is split; validation, the final
\* evaluation, _evaluate and _predict take no step.
C19_OnlyStepMutates ==
    /\ (call \in {"fit", "resume", "evaluate", "predict"}) =>
           net.ver = log.entry.net.ver + log.steps
    /\ (call \in {"evaluate", "predict"}) => log.steps = 0
    /\ (pc \in {"forward", "backward", "step"}) =>
           /\ loop.reads \subseteq {net.ver}
           /\ log.splits = log.steps + 1
    /\ (pc \in {"batch", "epoch_end", "validate", "save", "update_best", "report",
                "advance", "loop", "final_eval", "eval_batch"}) =>
           log.splits = log.steps
    /\ (Training /\ pc = "idle" /\ err = "none") => log.splits = log.steps

\* A batch of a second run is about to be stepped on two devices, after the
\* validation and the final evaluation of the first run.
C19_Witness ==
    /\ call = "fit"
    /\ calls = 2
    /\ pc = "step"
    /\ Len(loop.shards) = 2
    /\ loop.reads = {net.ver}
    /\ net.ver > 0

\* ------------------------------------------------ properties of the best score
\* The validation scores observed so far in the call.
Observed == {log.vals[j].map : j \in 1..Len(log.vals)}

\* max(0, every score observed so far)
BestObserved == CHOOSE m \in Observed \cup {0} : \A x \in Observed \cup {0} : x <= m

\* C20: within one _fit call the running best starts at 0, never decreases and,
\* once an epoch has dealt with its validation, equals max(0, the scores
\* observed so far); the returned valid_map is that value, never negative; a
\* run whose scores never exceed 0 ends with valid_map = 0 and no checkpoint
\* written.
C20_BestIsRunningMax ==
    (call = "fit") =>
        /\ best_map >= 0
        /\ (log.vals = <<>>) => best_map = 0
        /\ \A j \in 1..Len(log.vals) :
               /\ log.vals[j].best <= best_map
               /\ (j > 1) => log.vals[j - 1].best <= log.vals[j].best
        /\ (pc \in {"report", "advance", "loop", "final_eval"}) => best_map = BestObserved
        /\ (pc = "idle" /\ err = "none" /\ ret.kind = "dict") =>
               /\ best_map = BestObserved
               /\ ret.valid_map = best_map
               /\ ret.valid_map >= 0
        /\ (\A x \in Observed : x <= 0) =>
               /\ best_map = 0
               /\ log.ckpts = <<>>

\* A run has returned whose second validation scored below its first: the
\* best is the first score.
C20_Witness ==
    /\ call = "fit"
    /\ pc = "idle"
    /\ err = "none"
    /\ Len(log.vals) >= 2
    /\ log.vals[1].map > log.vals[2].map
    /\ log.vals[1].map > 0
    /\ ret.valid_map = log.vals[1].map
    /\ Len(log.ckpts) = 1

====
